---------------------------- MODULE Spec2Model ----------------------------
(***************************************************************************)
(* JobPacker (src/jobpacker.py): the menu loop of main(), the settings     *)
(* store (load_config / save_config), the settings sub-menu, search_jobs   *)
(* and export_jobs, as one state machine.                                  *)
(*                                                                         *)
(* Conventions.                                                            *)
(*  - A Python str is a sequence of one-character strings, so that lower(),*)
(*    re.sub, strip, slicing and number formatting are computed character  *)
(*    by character.  TLA+ strings are used only for labels of the model    *)
(*    (pc, notice, record tags, dictionary keys).                          *)
(*  - A dynamically typed Python value is a tagged record: [t |-> "None"], *)
(*    [t |-> "str", s |-> chars], [t |-> "int", n |-> 5], ...              *)
(*  - A dict is a function whose DOMAIN is its key set, so dict.get(k)     *)
(*    on a missing key is visible as k \notin DOMAIN d.                    *)
(*  - An uncaught exception ends the process: pc = "Crashed" and notice    *)
(*    names the exception.                                                 *)
(*  - Every set of values an action draws an input from is a definition    *)
(*    of its own (TermAnswers, IOOutcomes, ...), never a set written in    *)
(*    place, so that TLC evaluates it once, before the workers start.      *)
(***************************************************************************)
EXTENDS Integers, Sequences, FiniteSets, TLC

(***************************************************************************)
(* Bounds of the model.                                                    *)
(***************************************************************************)
\* longest search term drawn in SpecFilename
MaxTermLen == 4
\* longest record sequence drawn from the sample records
MaxRows == 2
\* number of calendar days the clock can show
MaxDay == 2
\* number of menu choices answered in one run
MaxSteps == 4

(***************************************************************************)
(* Python values.                                                          *)
(***************************************************************************)
None == [t |-> "None"]
NaN == [t |-> "float", f |-> "nan"]
Inf == [t |-> "float", f |-> "inf"]
PyStr(s) == [t |-> "str", s |-> s]
PyInt(n) == [t |-> "int", n |-> n]
PyBool(b) == [t |-> "bool", b |-> b]
PyList(xs) == [t |-> "list", xs |-> xs]
\* a finite float with integer part w; frac says whether it has a fraction
PyFloat(w, frac) == [t |-> "float", f |-> "finite", w |-> w, frac |-> frac]
\* datetime(y, m, d)
PyDate(y, m, d) == [t |-> "datetime", y |-> y, m |-> m, d |-> d]
\* an int too large for a float (10**400)
HugeInt == [t |-> "bigint"]

\* dict.get(key): None when the key is missing
Get(d, k) == IF k \in DOMAIN d THEN d[k] ELSE None
\* dict.get(key, ""): the empty string when the key is missing
GetOr(d, k, dflt) == IF k \in DOMAIN d THEN d[k] ELSE dflt

\* Truthy with every string taken as true, the empty one included
Truthy_AnyStr(v) ==
    CASE v.t = "None" -> FALSE
      [] v.t = "str" -> TRUE
      [] v.t = "int" -> v.n # 0
      [] v.t = "bool" -> v.b
      [] v.t = "list" -> v.xs # <<>>
      [] v.t = "float" -> ~(v.f = "finite" /\ v.w = 0 /\ ~v.frac)
      [] OTHER -> TRUE

\* bool(v): Python truthiness
Truthy(v) ==
    CASE v.t = "None" -> FALSE
      [] v.t = "str" -> v.s # <<>>
      [] v.t = "int" -> v.n # 0
      [] v.t = "bool" -> v.b
      [] v.t = "list" -> v.xs # <<>>
      [] v.t = "float" -> ~(v.f = "finite" /\ v.w = 0 /\ ~v.frac)
      [] OTHER -> TRUE

(***************************************************************************)
(* Characters and strings.                                                 *)
(***************************************************************************)
Digits == <<"0", "1", "2", "3", "4", "5", "6", "7", "8", "9">>
UpperCase == <<"A", "B", "C", "D", "E", "F", "G", "H", "I", "J", "K", "L", "M",
               "N", "O", "P", "Q", "R", "S", "T", "U", "V", "W", "X", "Y", "Z">>
LowerCase == <<"a", "b", "c", "d", "e", "f", "g", "h", "i", "j", "k", "l", "m",
               "n", "o", "p", "q", "r", "s", "t", "u", "v", "w", "x", "y", "z">>

Range(f) == {f[i] : i \in DOMAIN f}

\* str.lower() on one character
LowerChar(c) ==
    IF \E i \in DOMAIN UpperCase : UpperCase[i] = c
    THEN LowerCase[CHOOSE i \in DOMAIN UpperCase : UpperCase[i] = c]
    ELSE c

\* str.lower()
Lower(s) == [i \in DOMAIN s |-> LowerChar(s[i])]

\* the regex class [\w\-]: letters, digits, "_" and "-" (of the characters the
\* model draws; Python's \w also holds the letters and digits beyond ASCII)
WordOrDash == Range(UpperCase) \cup Range(LowerCase) \cup Range(Digits) \cup {"_", "-"}
IsWordOrDash(c) == c \in WordOrDash

\* re.sub(r'[^\w\-]', '_', s)
ReplaceSpecial(s) == [i \in DOMAIN s |-> IF IsWordOrDash(s[i]) THEN s[i] ELSE "_"]

RECURSIVE LStrip(_, _)
\* str.lstrip(c)
LStrip(s, c) == IF s # <<>> /\ Head(s) = c THEN LStrip(Tail(s), c) ELSE s

RECURSIVE RStrip(_, _)
\* str.rstrip(c)
RStrip(s, c) ==
    IF s # <<>> /\ s[Len(s)] = c THEN RStrip(SubSeq(s, 1, Len(s) - 1), c) ELSE s

\* str.strip(c)
Strip(s, c) == RStrip(LStrip(s, c), c)

RECURSIVE CollapseUnderscores(_)
\* re.sub(r'_+', '_', s)
CollapseUnderscores(s) ==
    IF Len(s) < 2 THEN s
    ELSE IF s[1] = "_" /\ s[2] = "_" THEN CollapseUnderscores(Tail(s))
    ELSE <<s[1]>> \o CollapseUnderscores(Tail(s))

\* s[:n]
Prefix(s, n) == SubSeq(s, 1, IF Len(s) < n THEN Len(s) ELSE n)

\* str.endswith(suffix)
EndsWith(s, suffix) ==
    /\ Len(s) >= Len(suffix)
    /\ SubSeq(s, Len(s) - Len(suffix) + 1, Len(s)) = suffix

RECURSIVE Dec(_)
\* str(n) for a natural number n
Dec(n) == IF n < 10 THEN <<Digits[n + 1]>> ELSE Dec(n \div 10) \o <<Digits[(n % 10) + 1]>>

RECURSIVE PadTo(_, _)
\* the digit string s zero-padded on the left to width w
PadTo(s, w) == IF Len(s) >= w THEN s ELSE PadTo(<<"0">> \o s, w)

\* n formatted zero-padded to width w (strftime's %m, %d, %H, ...)
Pad(n, w) == PadTo(Dec(n), w)

RECURSIVE Commas(_)
\* f"{n:,}" for a natural number n
Commas(n) ==
    IF n < 1000 THEN Dec(n)
    ELSE Commas(n \div 1000) \o <<",">> \o PadTo(Dec(n % 1000), 3)

DotJson == <<".", "j", "s", "o", "n">>
JobsLiteral == <<"j", "o", "b", "s">>

IsDigitString(s) == s # <<>> /\ \A i \in DOMAIN s : s[i] \in Range(Digits)

DigitValue(c) == (CHOOSE i \in DOMAIN Digits : Digits[i] = c) - 1

RECURSIVE ParseNat(_)
\* the number a digit string denotes
ParseNat(s) ==
    IF s = <<>> THEN 0 ELSE ParseNat(SubSeq(s, 1, Len(s) - 1)) * 10 + DigitValue(s[Len(s)])

\* a decimal literal with a fraction: digits "." digits
IsDecimalString(s) ==
    \E i \in DOMAIN s :
        /\ s[i] = "."
        /\ IsDigitString(SubSeq(s, 1, i - 1))
        /\ IsDigitString(SubSeq(s, i + 1, Len(s)))

(***************************************************************************)
(* Python conversions.  Each returns [exc |-> name of the exception or    *)
(* "none", ...result].                                                     *)
(***************************************************************************)
\* float(val): kind is "finite", "nan" or "inf"
float(val) ==
    CASE val.t \in {"int", "bool"} -> [exc |-> "none", kind |-> "finite"]
      [] val.t = "bigint" -> [exc |-> "OverflowError", kind |-> "none"]
      [] val.t = "float" -> [exc |-> "none", kind |-> val.f]
      [] val.t = "str" ->
            IF IsDigitString(val.s) \/ IsDecimalString(val.s)
            THEN [exc |-> "none", kind |-> "finite"]
            ELSE IF Lower(val.s) = <<"n", "a", "n">> THEN [exc |-> "none", kind |-> "nan"]
            ELSE IF Lower(val.s) = <<"i", "n", "f">> THEN [exc |-> "none", kind |-> "inf"]
            ELSE [exc |-> "ValueError", kind |-> "none"]
      [] OTHER -> [exc |-> "TypeError", kind |-> "none"]

\* int(val): n is the integer
int(val) ==
    CASE val.t = "int" -> [exc |-> "none", n |-> val.n]
      [] val.t = "bool" -> [exc |-> "none", n |-> IF val.b THEN 1 ELSE 0]
      [] val.t = "float" ->
            IF val.f = "finite" THEN [exc |-> "none", n |-> val.w]
            ELSE IF val.f = "nan" THEN [exc |-> "ValueError", n |-> 0]
            ELSE [exc |-> "OverflowError", n |-> 0]
      [] val.t = "str" ->
            IF IsDigitString(val.s) THEN [exc |-> "none", n |-> ParseNat(val.s)]
            ELSE [exc |-> "ValueError", n |-> 0]
      [] OTHER -> [exc |-> "TypeError", n |-> 0]

\* strftime("%Y-%m-%d")
StrftimeYmd(d) == Pad(d.y, 4) \o <<"-">> \o Pad(d.m, 2) \o <<"-">> \o Pad(d.d, 2)

\* str(val)
str(val) ==
    CASE val.t = "str" -> val.s
      [] val.t = "None" -> <<"N", "o", "n", "e">>
      [] val.t = "int" -> Dec(val.n)
      [] val.t = "bool" -> IF val.b THEN <<"T", "r", "u", "e">> ELSE <<"F", "a", "l", "s", "e">>
      [] val.t = "float" ->
            IF val.f = "nan" THEN <<"n", "a", "n">>
            ELSE IF val.f = "inf" THEN <<"i", "n", "f">>
            ELSE Dec(val.w) \o (IF val.frac THEN <<".", "5">> ELSE <<".", "0">>)
      [] val.t = "datetime" -> StrftimeYmd(val) \o <<" ", "0", "0", ":", "0", "0", ":", "0", "0">>
      [] OTHER -> <<"[", "]">>

(***************************************************************************)
(* console.print: the rich markup of the texts the program prints.         *)
(***************************************************************************)
\* the characters a markup tag can start with, after its "[": the class
\* [a-z#/@] of rich's tag pattern
TagStart == Range(LowerCase) \cup {"#", "/", "@"}

RECURSIVE TagEnd(_, _)
\* the index of the "]" that closes a tag, looked for from index j on, or 0
\* when a "[" or the end of the text comes first
TagEnd(text, j) ==
    IF j > Len(text) THEN 0
    ELSE IF text[j] = "]" THEN j
    ELSE IF text[j] = "[" THEN 0
    ELSE TagEnd(text, j + 1)

\* the open tags without the last one named name
PopStyle(stack, name) ==
    LET k == CHOOSE k \in 1..Len(stack) :
                 /\ stack[k] = name
                 /\ \A m \in (k + 1)..Len(stack) : stack[m] # name
    IN  SubSeq(stack, 1, k - 1) \o SubSeq(stack, k + 1, Len(stack))

RECURSIVE Render(_, _, _)
\* whether the markup of text renders from index i on with the tags of stack
\* open: an opening tag [name] is pushed, a closing tag [/name] needs an open
\* tag of that name and [/] any open tag, and MarkupError is raised (FALSE)
\* when there is none (texts without backslashes: no tag is escaped)
Render(text, i, stack) ==
    IF i > Len(text) THEN TRUE
    ELSE IF /\ text[i] = "["
            /\ i < Len(text)
            /\ text[i + 1] \in TagStart
            /\ TagEnd(text, i + 2) # 0
    THEN LET j == TagEnd(text, i + 2)
             name == SubSeq(text, i + 1, j - 1)
             style_name == Strip(Tail(name), " ")
         IN  IF Head(name) # "/" THEN Render(text, j + 1, Append(stack, name))
             ELSE IF style_name = <<>>
             THEN stack # <<>> /\ Render(text, j + 1, SubSeq(stack, 1, Len(stack) - 1))
             ELSE /\ \E k \in 1..Len(stack) : stack[k] = style_name
                  /\ Render(text, j + 1, PopStyle(stack, style_name))
    ELSE Render(text, i + 1, stack)

\* console.print(text) returns; otherwise it raises MarkupError
Prints(text) == Render(text, 1, <<>>)

(***************************************************************************)
(* export_jobs: the filename base, the date, the salary, the record.       *)
(***************************************************************************)
\* safe_search without line 244, the collapse of underscore runs
safe_search_NoCollapse(search_term) ==
    IF search_term # <<>>
    THEN Strip(ReplaceSpecial(Lower(search_term)), "_")
    ELSE JobsLiteral

\* jobpacker.py 243-244: the sanitized search term, or "jobs"
safe_search(search_term) ==
    CollapseUnderscores(
        IF search_term # <<>>
        THEN Strip(ReplaceSpecial(Lower(search_term)), "_")
        ELSE JobsLiteral)

\* a reading of datetime.now().astimezone(): the day, the time of day and
\* the offset from UTC in minutes
Reading(day, wc) == [day |-> day, H |-> wc.H, M |-> wc.M, S |-> wc.S, tz |-> wc.tz]

\* the calendar date of day number day
DayDate(day) == PyDate(2025, 1, 8 + day)

\* strftime('%z'): the sign and HHMM of the offset
StrftimeZ(now) ==
    LET a == IF now.tz < 0 THEN 0 - now.tz ELSE now.tz
    IN  <<IF now.tz < 0 THEN "-" ELSE "+">> \o Pad(a \div 60, 2) \o Pad(a % 60, 2)

\* strftime('%Y%m%d_%H%M%S')
StrftimeStamp(now) ==
    LET d == DayDate(now.day)
    IN  Pad(d.y, 4) \o Pad(d.m, 2) \o Pad(d.d, 2) \o <<"_">>
            \o Pad(now.H, 2) \o Pad(now.M, 2) \o Pad(now.S, 2)

\* jobpacker.py 250: the name offered at the Filename prompt
DefaultName(search_term, now) ==
    safe_search(search_term) \o <<"_">> \o StrftimeStamp(now) \o StrftimeZ(now) \o DotJson

\* Prompt.ask(..., default=d): the typed text, or the default on Enter
Enter == [t |-> "enter"]
PromptAsk(answer, default) == IF answer = Enter THEN default ELSE answer

\* jobpacker.py 251-254: the name the file is written under
ResolveFilename(answer, dflt) ==
    LET f == PromptAsk(answer, PyStr(dflt)).s
    IN  IF EndsWith(f, DotJson) THEN f ELSE f \o DotJson

\* DatePosted with "if date_posted is not None" for the test of line 261
DatePosted_NotNone(job, day) ==
    LET date_posted == Get(job, "date_posted")
    IN  IF date_posted.t # "None"
        THEN IF date_posted.t = "datetime"
             THEN StrftimeYmd(date_posted)
             ELSE Prefix(str(date_posted), 10)
        ELSE StrftimeYmd(DayDate(day))

\* jobpacker.py 260-267: day is the day datetime.now() shows
DatePosted(job, day) ==
    LET date_posted == Get(job, "date_posted")
    IN  IF Truthy(date_posted)
        THEN IF date_posted.t = "datetime"
             THEN StrftimeYmd(date_posted)
             ELSE Prefix(str(date_posted), 10)
        ELSE StrftimeYmd(DayDate(day))

\* jobpacker.py 274-281: "valid", "invalid", or the exception that escapes
is_valid_number(val) ==
    IF val.t = "None" THEN "invalid"
    ELSE LET f == float(val)
         IN  IF f.exc \in {"ValueError", "TypeError"} THEN "invalid"
             ELSE IF f.exc # "none" THEN f.exc
             ELSE IF f.kind = "nan" THEN "invalid" ELSE "valid"

Dollar(n) == <<"$">> \o Commas(n)

\* what the handler except (ValueError, TypeError) at 290 makes of exc
SalaryCaught(exc) == exc \in {"ValueError", "TypeError"}

\* jobpacker.py 270-291: [exc |-> the exception that escapes or "none",
\* salary |-> the text]
Salary(job) ==
    LET min_sal == Get(job, "min_amount")
        max_sal == Get(job, "max_amount")
        vmin == is_valid_number(min_sal)
        vmax == is_valid_number(max_sal)
        imin == int(min_sal)
        imax == int(max_sal)
        Raise(e) == [exc |-> e, salary |-> <<>>]
        Done(t) == [exc |-> "none", salary |-> t]
        \* the result of a branch that formats the amounts in order
        Fmt1(i, text) ==
            IF i.exc = "none" THEN Done(text)
            ELSE IF SalaryCaught(i.exc) THEN Done(<<>>) ELSE Raise(i.exc)
    IN  IF vmin \notin {"valid", "invalid"} THEN Raise(vmin)
        ELSE IF vmin = "valid" /\ vmax \notin {"valid", "invalid"} THEN Raise(vmax)
        ELSE IF vmin = "valid" /\ vmax = "valid"
        THEN IF imin.exc # "none" THEN Fmt1(imin, <<>>)
             ELSE Fmt1(imax, Dollar(imin.n) \o <<" ", "-", " ">> \o Dollar(imax.n))
        ELSE IF vmin = "valid" THEN Fmt1(imin, Dollar(imin.n) \o <<"+">>)
        ELSE IF vmax \notin {"valid", "invalid"} THEN Raise(vmax)
        ELSE IF vmax = "valid"
        THEN Fmt1(imax, <<"U", "p", " ", "t", "o", " ">> \o Dollar(imax.n))
        ELSE Done(<<>>)

\* a generator that hands out the same identifier every time
Uuid_Constant(n) == <<"u", "u", "i", "d", "-", "0">>

\* str(uuid.uuid4()): the n-th identifier the generator hands out
Uuid(n) == <<"u", "u", "i", "d", "-">> \o Dec(n)

Saved == <<"S", "a", "v", "e", "d">>

\* jobpacker.py 293-305
cleansheet_job(job, id, day) ==
    [id |-> id,
     company |-> str(GetOr(job, "company", PyStr(<<>>))),
     title |-> str(GetOr(job, "title", PyStr(<<>>))),
     location |-> str(GetOr(job, "location", PyStr(<<>>))),
     url |-> str(GetOr(job, "job_url", PyStr(<<>>))),
     description |-> str(GetOr(job, "description", PyStr(<<>>))),
     salary |-> Salary(job).salary,
     datePosted |-> DatePosted(job, day),
     source |-> str(GetOr(job, "site", PyStr(<<>>))),
     status |-> Saved,
     tags |-> <<>>]

\* the index of the first record whose salary derivation raises, or
\* Len(js) + 1
FirstRaising(js) ==
    IF \E i \in DOMAIN js : Salary(js[i]).exc # "none"
    THEN CHOOSE i \in DOMAIN js :
            /\ Salary(js[i]).exc # "none"
            /\ \A k \in 1..(i - 1) : Salary(js[k]).exc = "none"
    ELSE Len(js) + 1

\* json.dump(obj, f): the document a file holds
JsonArray(items) == [json |-> "array", items |-> items]
JsonObject(members) == [json |-> "object", members |-> members]
\* a file opened for writing whose write did not complete
PartialFile == [json |-> "partial"]

\* jobpacker.py 311: what export_jobs hands to json.dump
ExportDocument(records) == JsonArray(records)

(***************************************************************************)
(* The settings store.                                                     *)
(***************************************************************************)
Indeed == <<"i", "n", "d", "e", "e", "d">>
Linkedin == <<"l", "i", "n", "k", "e", "d", "i", "n">>
Glassdoor == <<"g", "l", "a", "s", "s", "d", "o", "o", "r">>
ZipRecruiter == <<"z", "i", "p", "_", "r", "e", "c", "r", "u", "i", "t", "e", "r">>
Google == <<"g", "o", "o", "g", "l", "e">>
Usa == <<"U", "S", "A">>
Fulltime == <<"f", "u", "l", "l", "t", "i", "m", "e">>
Parttime == <<"p", "a", "r", "t", "t", "i", "m", "e">>
Internship == <<"i", "n", "t", "e", "r", "n", "s", "h", "i", "p">>
Contract == <<"c", "o", "n", "t", "r", "a", "c", "t">>

\* jobpacker.py 39
ALL_JOB_BOARDS == <<Indeed, Linkedin, Glassdoor, ZipRecruiter, Google>>

\* jobpacker.py 29-36
DEFAULT_CONFIG ==
    [default_search |-> PyStr(<<>>),
     default_location |-> PyStr(Usa),
     results_per_site |-> PyInt(15),
     remote_only |-> PyBool(FALSE),
     job_type |-> None,
     job_boards |-> PyList(ALL_JOB_BOARDS)]

\* jobpacker.py 42
JOB_TYPES == <<None, PyStr(Fulltime), PyStr(Parttime), PyStr(Internship), PyStr(Contract)>>

\* the keys of DEFAULT_CONFIG
ConfigKeys == DOMAIN DEFAULT_CONFIG

\* {**b, **a}: the operands of the merge exchanged
Merge_Exchanged(a, b) == [k \in DOMAIN a \cup DOMAIN b |-> IF k \in DOMAIN a THEN a[k] ELSE b[k]]

\* a merge that keeps only the keys of a
Merge_KeysOfFirst(a, b) == [k \in DOMAIN a |-> IF k \in DOMAIN b THEN b[k] ELSE a[k]]

\* {**a, **b}
Merge(a, b) == [k \in DOMAIN a \cup DOMAIN b |-> IF k \in DOMAIN b THEN b[k] ELSE a[k]]

\* json.dump of a value of a configuration: the JSON value written
JsonValue(v) ==
    CASE v.t = "None" -> [j |-> "null"]
      [] v.t = "bool" -> [j |-> IF v.b THEN "true" ELSE "false"]
      [] v.t = "int" -> [j |-> "number", n |-> v.n]
      [] v.t = "str" -> [j |-> "string", s |-> v.s]
      [] OTHER -> [j |-> "array", items |-> [i \in DOMAIN v.xs |-> [j |-> "string", s |-> v.xs[i]]]]

\* json.dump of a dict
JsonDict(d) == [j |-> "object", members |-> [k \in DOMAIN d |-> JsonValue(d[k])]]

\* PyValue with null read as the empty string
PyValue_NullAsEmpty(jv) ==
    CASE jv.j = "null" -> PyStr(<<>>)
      [] jv.j = "true" -> PyBool(TRUE)
      [] jv.j = "false" -> PyBool(FALSE)
      [] jv.j = "number" -> PyInt(jv.n)
      [] jv.j = "string" -> PyStr(jv.s)
      [] OTHER -> PyList([i \in DOMAIN jv.items |-> jv.items[i].s])

\* json.load of a JSON value of a configuration
PyValue(jv) ==
    CASE jv.j = "null" -> None
      [] jv.j = "true" -> PyBool(TRUE)
      [] jv.j = "false" -> PyBool(FALSE)
      [] jv.j = "number" -> PyInt(jv.n)
      [] jv.j = "string" -> PyStr(jv.s)
      [] OTHER -> PyList([i \in DOMAIN jv.items |-> jv.items[i].s])

\* json.load of a JSON document: a dict for an object
PyDict(doc) == [k \in DOMAIN doc.members |-> PyValue(doc.members[k])]

\* what CONFIG_PATH holds
Missing == [kind |-> "missing"]
Unreadable == [kind |-> "unreadable"]
EmptyFile == [kind |-> "empty"]
InvalidJson == [kind |-> "invalid"]
Undecodable == [kind |-> "undecodable"]
JsonFile(doc) == [kind |-> "json", doc |-> doc]

\* jobpacker.py 45-55: [exc |-> the exception that escapes or "none",
\* config |-> the dict returned]
load_config(file) ==
    CASE file.kind = "missing" -> [exc |-> "none", config |-> DEFAULT_CONFIG]
      \* open() raises PermissionError, an IOError: caught
      [] file.kind = "unreadable" -> [exc |-> "none", config |-> DEFAULT_CONFIG]
      \* json.load raises JSONDecodeError: caught
      [] file.kind \in {"empty", "invalid"} -> [exc |-> "none", config |-> DEFAULT_CONFIG]
      \* reading raises UnicodeDecodeError, which is neither
      [] file.kind = "undecodable" -> [exc |-> "UnicodeDecodeError", config |-> <<>>]
      [] OTHER ->
            IF file.doc.j = "object"
            THEN [exc |-> "none", config |-> Merge(DEFAULT_CONFIG, PyDict(file.doc))]
            \* {**DEFAULT_CONFIG, **config} of a non-mapping
            ELSE [exc |-> "TypeError", config |-> <<>>]

\* jobpacker.py 58-61: the file after a save that completes
save_config(cfg) == JsonFile(JsonDict(cfg))

(***************************************************************************)
(* select_job_boards.                                                      *)
(***************************************************************************)
RECURSIVE Split(_, _)
\* str.split(sep) for a one-character separator
Split(s, sep) ==
    IF \E i \in DOMAIN s : s[i] = sep
    THEN LET i == CHOOSE k \in DOMAIN s : s[k] = sep /\ \A m \in 1..(k - 1) : s[m] # sep
         IN  <<SubSeq(s, 1, i - 1)>> \o Split(SubSeq(s, i + 1, Len(s)), sep)
    ELSE <<s>>

\* int(x.strip()) of a piece of the selection
IntToken(x) ==
    LET u == Strip(x, " ")
    IN  IF IsDigitString(u) THEN [exc |-> "none", n |-> ParseNat(u)]
        ELSE IF Len(u) >= 2 /\ u[1] = "-" /\ IsDigitString(Tail(u))
        THEN [exc |-> "none", n |-> 0 - ParseNat(Tail(u))]
        ELSE IF Len(u) >= 2 /\ u[1] = "+" /\ IsDigitString(Tail(u))
        THEN [exc |-> "none", n |-> ParseNat(Tail(u))]
        ELSE [exc |-> "ValueError", n |-> 0]

RECURSIVE SelectInRange(_)
\* [ALL_JOB_BOARDS[i-1] for i in indices if 1 <= i <= len(ALL_JOB_BOARDS)]
SelectInRange(indices) ==
    IF indices = <<>> THEN <<>>
    ELSE (IF 1 <= Head(indices) /\ Head(indices) <= Len(ALL_JOB_BOARDS)
          THEN <<ALL_JOB_BOARDS[Head(indices)]>> ELSE <<>>)
         \o SelectInRange(Tail(indices))

AllLiteral == <<"a", "l", "l">>

\* jobpacker.py 131-142: [boards |-> the value returned, warned |-> whether
\* "Invalid selection" was printed]
select_job_boards(current, selection) ==
    IF Lower(selection) = AllLiteral
    THEN [boards |-> PyList(ALL_JOB_BOARDS), warned |-> FALSE]
    ELSE LET parts == Split(selection, ",")
             tokens == [i \in DOMAIN parts |-> IntToken(parts[i])]
         IN  IF \E i \in DOMAIN tokens : tokens[i].exc # "none"
             THEN [boards |-> current, warned |-> TRUE]
             ELSE LET selected == SelectInRange([i \in DOMAIN tokens |-> tokens[i].n])
                  IN  [boards |-> IF selected # <<>> THEN PyList(selected) ELSE current,
                       warned |-> FALSE]

(***************************************************************************)
(* The state.                                                              *)
(***************************************************************************)
VARIABLES
    pc,                \* "Start", "MainMenu", "Settings", "Exited", "Crashed"
    choice,            \* main(): the latest answer at the main menu
    config,            \* main(): the configuration dict
    jobs,              \* main(): the held raw records
    last_search_term,  \* main(): the held search term
    configFile,        \* what CONFIG_PATH holds
    files,             \* the export files: name -> document
    nextId,            \* how many identifiers uuid4 has handed out
    today,             \* the latest day the clock was seen to show
    notice,            \* the latest message on the console
    default_name,      \* export_jobs: default_name of the latest call
    filename,          \* export_jobs: filename of the latest call
    cleansheet_jobs,   \* export_jobs: cleansheet_jobs of the latest call
    prompts,           \* the prompts the latest search or Settings edit
                       \* showed, each with the value it returned
    scrape_calls,      \* search_jobs: the arguments of the scrape_jobs calls
                       \* the latest call made
    last_io,           \* how the write of the latest export or save ended
                       \* ("none": the call did not get to it)
    steps              \* how many menu choices have been answered

vars == <<pc, choice, config, jobs, last_search_term, configFile, files, nextId,
          today, notice, default_name, filename, cleansheet_jobs,
          prompts, scrape_calls, last_io, steps>>

heldVars == <<jobs, last_search_term>>
searchVars == <<prompts, scrape_calls>>
exportVars == <<files, nextId, today, default_name, filename, cleansheet_jobs,
                last_io>>

\* one more menu choice is answered
Answered == steps < MaxSteps /\ steps' = steps + 1

(***************************************************************************)
(* main(): the start and the main menu.                                    *)
(***************************************************************************)
\* jobpacker.py 322-326
LoadConfig ==
    /\ pc = "Start"
    /\ LET r == load_config(configFile)
       IN  IF r.exc = "none"
           THEN /\ config' = r.config
                /\ pc' = "MainMenu"
                /\ notice' = "Banner"
           ELSE /\ config' = config
                /\ pc' = "Crashed"
                /\ notice' = r.exc
    /\ UNCHANGED <<choice, heldVars, searchVars, configFile, exportVars, steps>>

\* jobpacker.py 154, 159 and 105-116, 131: a prompt that was shown and the
\* value its ask() returned
Asked(prompt, value) == [prompt |-> prompt, value |-> value]

\* jobpacker.py 179-187: the keyword arguments of the scrape_jobs call
ScrapeArgs(cfg, search_term, location) ==
    [site_name |-> cfg["job_boards"],
     search_term |-> search_term,
     location |-> location,
     results_wanted |-> cfg["results_per_site"],
     is_remote |-> cfg["remote_only"],
     job_type |-> cfg["job_type"],
     country_indeed |-> PyStr(Usa)]

\* a call of scrape_jobs: its arguments and what it did (raised, returned
\* None, or returned a table with the rows given)
Call(args, result) == [args |-> args, result |-> result]

\* len(v) of a list or a string
len(v) == IF v.t = "list" THEN Len(v.xs) ELSE Len(v.s)

\* jobpacker.py 196: the text printed when scrape_jobs raised an exception
\* whose message is msg
SearchErrorText(msg) ==
    <<"[", "r", "e", "d", "]", "S", "e", "a", "r", "c", "h", " ", "e", "r",
      "r", "o", "r", ":", " ">>
    \o msg \o <<"[", "/", "]">>

\* jobpacker.py 162: the line printed before the search
SearchingText(cfg) ==
    <<"[", "d", "i", "m", "]", "S", "e", "a", "r", "c", "h", "i", "n", "g",
      " ">> \o Dec(len(cfg["job_boards"]))
    \o <<" ", "b", "o", "a", "r", "d", "s", ",", " ">> \o str(cfg["results_per_site"])
    \o
    <<" ", "r", "e", "s", "u", "l", "t", "s", " ", "e", "a", "c", "h", "[",
      "/", "]">>

\* jobpacker.py 165-166: the line printed for a job type that is set
JobTypeText(cfg) ==
    <<"[", "d", "i", "m", "]", "J", "o", "b", " ", "t", "y", "p", "e", ":",
      " ">>
    \o str(cfg["job_type"]) \o <<"[", "/", "]">>

\* jobpacker.py 162-166: the lines before the search are printed
SettingsShown(cfg) ==
    /\ Prints(SearchingText(cfg))
    /\ Truthy(cfg["job_type"]) => Prints(JobTypeText(cfg))

\* jobpacker.py 219: the number of records the table shows at most
TableRows == 50

\* jobpacker.py 220-223: the cells of the table row of a record
Cells(job) ==
    {Prefix(str(GetOr(job, "title", PyStr(<<>>))), 30),
     Prefix(str(GetOr(job, "company", PyStr(<<>>))), 25),
     Prefix(str(GetOr(job, "location", PyStr(<<>>))), 20),
     str(GetOr(job, "site", PyStr(<<>>)))}

\* jobpacker.py 210-230, display_jobs_table: the table of the first 50
\* records is printed
TableShown(records) ==
    \A i \in 1..Len(records) :
        i <= TableRows => \A cell \in Cells(records[i]) : Prints(cell)

\* SearchResult returning the empty term with the records found
SearchResult_NoTerm(outcome, search_term) ==
    LET Gave(js, term, text) == [exc |-> "none", jobs |-> js, term |-> term, notice |-> text]
        Raised == [exc |-> "MarkupError"]
    IN  CASE outcome.kind = "raise" ->
               IF Prints(SearchErrorText(outcome.msg))
               THEN Gave(<<>>, search_term, "Search error") ELSE Raised
          [] outcome.kind = "rows" /\ outcome.rows # <<>> ->
               IF TableShown(outcome.rows)
               THEN Gave(outcome.rows, PyStr(<<>>), "Found") ELSE Raised
          [] OTHER -> Gave(<<>>, search_term, "No jobs found")

\* SearchResult with the rows of the table in reverse order
SearchResult_Reversed(outcome, search_term) ==
    LET Gave(js, text) == [exc |-> "none", jobs |-> js, term |-> search_term, notice |-> text]
        Raised == [exc |-> "MarkupError"]
    IN  CASE outcome.kind = "raise" ->
               IF Prints(SearchErrorText(outcome.msg))
               THEN Gave(<<>>, "Search error") ELSE Raised
          [] outcome.kind = "rows" /\ outcome.rows # <<>> ->
               IF TableShown(outcome.rows)
               THEN Gave([i \in 1..Len(outcome.rows) |->
                              outcome.rows[Len(outcome.rows) + 1 - i]], "Found")
               ELSE Raised
          [] OTHER -> Gave(<<>>, "No jobs found")

\* jobpacker.py 189-207: what search_jobs returns, and the message it prints,
\* for what scrape_jobs did; to_dict("records") gives one dict per row in
\* the row order of the table.  The message of a caught exception and the
\* texts of the records are printed as markup, outside any try.
SearchResult(outcome, search_term) ==
    LET Gave(js, text) == [exc |-> "none", jobs |-> js, term |-> search_term, notice |-> text]
        Raised == [exc |-> "MarkupError"]
    IN  CASE outcome.kind = "raise" ->
               IF Prints(SearchErrorText(outcome.msg))
               THEN Gave(<<>>, "Search error") ELSE Raised
          [] outcome.kind = "rows" /\ outcome.rows # <<>> ->
               IF TableShown(outcome.rows)
               THEN Gave(outcome.rows, "Found") ELSE Raised
          [] OTHER -> Gave(<<>>, "No jobs found")

\* whether len(v) is defined
Sized(v) == v.t \in {"list", "str"}

\* jobpacker.py 145-207; choice "1" of the main menu.  The external
\* capability scrape_jobs raises, returns None, or returns rows.
SearchJobs(Terms, Locations, Outcomes) ==
    /\ pc = "MainMenu"
    /\ Answered
    /\ choice' = "1"
    /\ \E answer \in Terms :
         LET search_term == PromptAsk(answer, config["default_search"])
         IN  IF ~Truthy(search_term)
             THEN /\ jobs' = <<>>
                  /\ last_search_term' = <<>>
                  /\ prompts' = <<Asked("Job title / keywords", search_term)>>
                  /\ scrape_calls' = <<>>
                  /\ notice' = "Search term is required"
                  /\ pc' = "MainMenu"
             ELSE \E where \in Locations :
                  LET location == PromptAsk(where, config["default_location"])
                  IN  /\ prompts' = <<Asked("Job title / keywords", search_term),
                                       Asked("Location", location)>>
                      /\ IF ~Sized(config["job_boards"])
                         THEN \* len(config['job_boards']) at 162, outside the try
                              /\ UNCHANGED heldVars
                              /\ scrape_calls' = <<>>
                              /\ notice' = "TypeError"
                              /\ pc' = "Crashed"
                         ELSE IF ~SettingsShown(config)
                         THEN /\ UNCHANGED heldVars
                              /\ scrape_calls' = <<>>
                              /\ notice' = "MarkupError"
                              /\ pc' = "Crashed"
                         ELSE \E outcome \in Outcomes :
                                LET r == SearchResult(outcome, search_term)
                                IN  /\ scrape_calls' =
                                         <<Call(ScrapeArgs(config, search_term, location), outcome)>>
                                    /\ IF r.exc = "none"
                                       THEN /\ pc' = "MainMenu"
                                            /\ jobs' = r.jobs
                                            /\ last_search_term' = r.term.s
                                            /\ notice' = r.notice
                                       ELSE /\ UNCHANGED heldVars
                                            /\ notice' = r.exc
                                            /\ pc' = "Crashed"
    /\ UNCHANGED <<config, configFile, exportVars>>

\* whether ', '.join(v) at 96 succeeds
Joinable(v) == v.t \in {"list", "str"}

RECURSIVE JoinComma(_)
\* ', '.join(xs) for a sequence of strings
JoinComma(xs) ==
    IF xs = <<>> THEN <<>>
    ELSE IF Len(xs) = 1 THEN xs[1]
    ELSE xs[1] \o <<",", " ">> \o JoinComma(Tail(xs))

\* jobpacker.py 91-96: a line of the Settings menu, "  [n] label: " and
\* the value shown in yellow
SettingsLine(label, text) ==
    label \o <<"[", "y", "e", "l", "l", "o", "w", "]">> \o text \o <<"[", "/", "]">>

\* jobpacker.py 91, 95: value or alt
OrElse(v, alt) == IF Truthy(v) THEN str(v) ELSE alt

\* jobpacker.py 91-95: the texts of the first five lines of the menu
SettingsLines(cfg) ==
    <<SettingsLine(
        <<" ", " ", "[", "1", "]", " ", "D", "e", "f", "a", "u", "l", "t",
          " ", "S", "e", "a", "r", "c", "h", ":", " ">>,
        OrElse(cfg["default_search"], <<"(", "n", "o", "n", "e", ")">>)),
      SettingsLine(
        <<" ", " ", "[", "2", "]", " ", "D", "e", "f", "a", "u", "l", "t",
          " ", "L", "o", "c", "a", "t", "i", "o", "n", ":", " ">>,
        str(cfg["default_location"])),
      SettingsLine(
        <<" ", " ", "[", "3", "]", " ", "R", "e", "s", "u", "l", "t", "s",
          " ", "p", "e", "r", " ", "S", "i", "t", "e", ":", " ">>,
        str(cfg["results_per_site"])),
      SettingsLine(
        <<" ", " ", "[", "4", "]", " ", "R", "e", "m", "o", "t", "e", " ",
          "O", "n", "l", "y", ":", " ">>,
        str(cfg["remote_only"])),
      SettingsLine(
        <<" ", " ", "[", "5", "]", " ", "J", "o", "b", " ", "T", "y", "p",
          "e", ":", " ">>,
        OrElse(cfg["job_type"], <<"A", "n", "y">>))>>

\* jobpacker.py 96: the line of the job boards, for a list of strings or a
\* string (joined character by character)
BoardsLine(boards) ==
    SettingsLine(
        <<" ", " ", "[", "6", "]", " ", "J", "o", "b", " ", "B", "o", "a",
          "r", "d", "s", ":", " ">>,
        JoinComma(IF boards.t = "list" THEN boards.xs
                  ELSE [i \in DOMAIN boards.s |-> <<boards.s[i]>>]))

\* jobpacker.py 89-98: what showing the Settings menu raises: MarkupError
\* for a value with an unmatched closing tag, TypeError for job boards that
\* cannot be joined, "none" when the menu is shown
SettingsMenu(cfg) ==
    IF \E i \in DOMAIN SettingsLines(cfg) : ~Prints(SettingsLines(cfg)[i]) THEN "MarkupError"
    ELSE IF ~Joinable(cfg["job_boards"]) THEN "TypeError"
    ELSE IF ~Prints(BoardsLine(cfg["job_boards"])) THEN "MarkupError"
    ELSE "none"

\* jobpacker.py 88-100: the loop of display_settings_menu shows the menu for
\* cfg and asks for a choice, or ends with what showing it raised
ShowSettings(cfg, said) ==
    IF SettingsMenu(cfg) = "none"
    THEN pc' = "Settings" /\ notice' = said
    ELSE pc' = "Crashed" /\ notice' = SettingsMenu(cfg)

\* jobpacker.py 333-334 and the first display of the settings menu (90-98)
EnterSettings ==
    /\ pc = "MainMenu"
    /\ Answered
    /\ choice' = "2"
    /\ ShowSettings(config, "Settings")
    /\ UNCHANGED <<config, heldVars, searchVars, configFile, exportVars>>

\* jobpacker.py 337-339
Exit ==
    /\ pc = "MainMenu"
    /\ Answered
    /\ choice' = "4"
    /\ pc' = "Exited"
    /\ notice' = "Goodbye"
    /\ UNCHANGED <<config, heldVars, searchVars, configFile, exportVars>>

(***************************************************************************)
(* display_settings_menu: one action per choice.  config is the dict of    *)
(* main(), edited in place.                                                *)
(***************************************************************************)
SettingsFrame == UNCHANGED <<choice, heldVars, scrape_calls, configFile, exportVars>>

\* config with key k set to v
SetKey(cfg, k, v) == [cfg EXCEPT ![k] = v]

\* jobpacker.py 105-106
EditDefaultSearch(Answers) ==
    /\ pc = "Settings"
    /\ Answered
    /\ \E answer \in Answers :
         LET value == PromptAsk(answer, config["default_search"])
         IN  /\ config' = SetKey(config, "default_search", value)
             /\ prompts' = <<Asked("Default search terms", value)>>
             /\ ShowSettings(SetKey(config, "default_search", value), "Settings")
    /\ SettingsFrame

\* jobpacker.py 107-108
EditDefaultLocation(Answers) ==
    /\ pc = "Settings"
    /\ Answered
    /\ \E answer \in Answers :
         LET value == PromptAsk(answer, config["default_location"])
         IN  /\ config' = SetKey(config, "default_location", value)
             /\ prompts' = <<Asked("Default location", value)>>
             /\ ShowSettings(SetKey(config, "default_location", value), "Settings")
    /\ SettingsFrame

\* jobpacker.py 109-110
EditResultsPerSite(Answers) ==
    /\ pc = "Settings"
    /\ Answered
    /\ \E answer \in Answers :
         LET value == PromptAsk(answer, config["results_per_site"])
         IN  /\ config' = SetKey(config, "results_per_site", value)
             /\ prompts' = <<Asked("Results per site", value)>>
             /\ ShowSettings(SetKey(config, "results_per_site", value), "Settings")
    /\ SettingsFrame

\* jobpacker.py 111-112
EditRemoteOnly(Answers) ==
    /\ pc = "Settings"
    /\ Answered
    /\ \E answer \in Answers :
         LET value == PromptAsk(answer, config["remote_only"])
         IN  /\ config' = SetKey(config, "remote_only", value)
             /\ prompts' = <<Asked("Remote jobs only?", value)>>
             /\ ShowSettings(SetKey(config, "remote_only", value), "Settings")
    /\ SettingsFrame

\* JobTypeFor with JOB_TYPES[2:] in place of JOB_TYPES[1:]
JobTypeFor_FromThird(job_type) ==
    IF \E i \in 3..Len(JOB_TYPES) : JOB_TYPES[i] = job_type THEN job_type ELSE None

\* jobpacker.py 116: the value stored for the text entered
JobTypeFor(job_type) ==
    IF \E i \in 2..Len(JOB_TYPES) : JOB_TYPES[i] = job_type THEN job_type ELSE None

\* jobpacker.py 113-116
EditJobType(Answers) ==
    /\ pc = "Settings"
    /\ Answered
    /\ \E answer \in Answers :
         LET dflt == IF Truthy(config["job_type"]) THEN config["job_type"] ELSE PyStr(<<>>)
             job_type == PromptAsk(answer, dflt)
         IN  /\ config' = SetKey(config, "job_type", JobTypeFor(job_type))
             /\ prompts' = <<Asked("Job type", job_type)>>
             /\ ShowSettings(SetKey(config, "job_type", JobTypeFor(job_type)), "Settings")
    /\ SettingsFrame

\* jobpacker.py 117-118
EditJobBoards(Answers) ==
    /\ pc = "Settings"
    /\ Answered
    /\ \E answer \in Answers :
         LET selection == PromptAsk(answer, PyStr(AllLiteral)).s
             r == select_job_boards(config["job_boards"], selection)
         IN  /\ config' = SetKey(config, "job_boards", r.boards)
             /\ prompts' = <<Asked("Selection", PyStr(selection))>>
             /\ ShowSettings(SetKey(config, "job_boards", r.boards),
                             IF r.warned THEN "Invalid selection" ELSE "Settings")
    /\ SettingsFrame

\* jobpacker.py 102-104 and 120: choice "0".  open() or the write may fail
\* with an OSError, which nothing catches.
SettingsBack(IOs) ==
    /\ pc = "Settings"
    /\ Answered
    /\ \E io \in IOs :
         /\ last_io' = io
         /\ CASE io = "ok" ->
                /\ configFile' = save_config(config)
                /\ pc' = "MainMenu" /\ notice' = "Main menu"
           [] io = "open_fails" ->
                /\ configFile' = configFile
                /\ pc' = "Crashed" /\ notice' = "OSError"
           [] OTHER ->
                /\ configFile' \in {EmptyFile, InvalidJson}
                /\ pc' = "Crashed" /\ notice' = "OSError"
    /\ UNCHANGED <<choice, config, heldVars, searchVars, files, nextId, today,
                   default_name, filename, cleansheet_jobs>>

(***************************************************************************)
(* export_jobs; choice "3" of the main menu.                               *)
(***************************************************************************)
\* times of day and offsets from UTC the clock is read at; late is whether
\* midnight is close enough to pass before the export ends
Morning == [H |-> 9, M |-> 5, S |-> 30, tz |-> 0 - 300, late |-> FALSE]
Midnight == [H |-> 23, M |-> 59, S |-> 59, tz |-> 60, late |-> TRUE]
WallClocks == {Morning, Midnight}

\* jobpacker.py 313: the text printed after the write (without its leading
\* newline)
ExportedText(n, fn) ==
    <<"[", "g", "r", "e", "e", "n", "]", "E", "x", "p", "o", "r", "t", "e",
      "d", " ">> \o Dec(n)
    \o <<" ", "j", "o", "b", "s", " ", "t", "o", " ">> \o fn \o <<"[", "/", "]">>

\* str(e) of the OSError that open(filename, "w") raises: the error number,
\* its text and the repr of the filename
OpenErrorText(fn) ==
    <<"[", "E", "r", "r", "n", "o", " ", "1", "3", "]", " ", "P", "e", "r",
      "m", "i", "s", "s", "i", "o", "n", " ", "d", "e", "n", "i", "e", "d",
      ":", " ", "'">>
    \o fn \o <<"'">>

\* str(e) of the OSError that the write raises: no filename in it
WriteErrorText ==
    <<"[", "E", "r", "r", "n", "o", " ", "2", "8", "]", " ", "N", "o", " ",
      "s", "p", "a", "c", "e", " ", "l", "e", "f", "t", " ", "o", "n", " ",
      "d", "e", "v", "i", "c", "e">>

\* jobpacker.py 317: the text printed by the handler of IOError
ExportFailedText(msg) ==
    <<"[", "r", "e", "d", "]", "E", "x", "p", "o", "r", "t", " ", "f", "a",
      "i", "l", "e", "d", ":", " ">>
    \o msg \o <<"[", "/", "]">>

\* jobpacker.py 309-317: the files, the message and where control goes after
\* the write, which ends as io says.  The texts of lines 313 and 317 are
\* printed as markup with the filename in them; MarkupError is no IOError.
WriteExport(io, fn, records, fs) ==
    LET Shown(text, said) ==
            IF Prints(text) THEN [notice |-> said, pc |-> "MainMenu"]
            ELSE [notice |-> "MarkupError", pc |-> "Crashed"]
    IN  CASE io = "ok" ->
                [files |-> (fn :> ExportDocument(records)) @@ fs]
                @@ Shown(ExportedText(Len(records), fn), "Exported")
          \* open() raised: no file is touched
          [] io = "open_fails" ->
                [files |-> fs]
                @@ Shown(ExportFailedText(OpenErrorText(fn)), "Export failed")
          \* the file was opened (and emptied) and the write raised
          [] OTHER ->
                [files |-> (fn :> PartialFile) @@ fs]
                @@ Shown(ExportFailedText(WriteErrorText), "Export failed")

\* export_jobs without the return of line 237: the empty list is exported
\* under the default name
ExportEmpty_NoReturn ==
    /\ pc = "MainMenu"
    /\ jobs = <<>>
    /\ Answered
    /\ choice' = "3"
    /\ LET dn == DefaultName(last_search_term, Reading(today, Morning))
           w == WriteExport("ok", ResolveFilename(Enter, dn), <<>>, files)
       IN  /\ default_name' = dn
           /\ filename' = ResolveFilename(Enter, dn)
           /\ files' = w.files
           /\ notice' = w.notice
           /\ pc' = w.pc
    /\ cleansheet_jobs' = <<>>
    /\ last_io' = "ok"
    /\ UNCHANGED <<config, heldVars, searchVars, configFile, nextId, today>>

\* jobpacker.py 235-237
ExportEmpty ==
    /\ pc = "MainMenu"
    /\ jobs = <<>>
    /\ Answered
    /\ choice' = "3"
    /\ notice' = "No jobs to export"
    /\ pc' = "MainMenu"
    /\ default_name' = <<>> /\ filename' = <<>> /\ cleansheet_jobs' = <<>>
    /\ last_io' = "none"
    /\ UNCHANGED <<config, heldVars, searchVars, configFile, files, nextId, today>>

\* the records after which midnight may pass during a conversion of n
\* records that starts on day d0 at wc (n: it does not pass)
RollPoints(n, d0, wc) == IF wc.late /\ d0 < MaxDay THEN {0, 1, n} \cap 0..n ELSE {n}

\* jobpacker.py 239-317.  The clock shows day d0 when the name is built and
\* may pass midnight once while the records are converted (after record
\* number roll, or before the first record when roll is 0).  A record whose salary derivation raises ends the process.
ExportNonEmpty(Answers, IOs, Clocks) ==
    /\ pc = "MainMenu"
    /\ jobs # <<>>
    /\ Answered
    /\ choice' = "3"
    /\ \E d0 \in today..MaxDay, wc \in Clocks, answer \in Answers, io \in IOs :
       \E roll \in RollPoints(Len(jobs), d0, wc) :
         LET now == Reading(d0, wc)
             dn == DefaultName(last_search_term, now)
             fn == ResolveFilename(answer, dn)
             dayAt(i) == IF i <= roll THEN d0 ELSE d0 + 1
             bad == FirstRaising(jobs)
             built == [i \in 1..(bad - 1) |->
                         cleansheet_job(jobs[i], Uuid(nextId + i), dayAt(i))]
         IN  /\ default_name' = dn
             /\ filename' = fn
             /\ cleansheet_jobs' = built
             /\ nextId' = nextId + Len(built)
             /\ today' = dayAt(bad - 1)
             /\ IF bad <= Len(jobs)
                THEN /\ pc' = "Crashed"
                     /\ notice' = Salary(jobs[bad]).exc
                     /\ files' = files
                     /\ last_io' = "none"
                ELSE LET w == WriteExport(io, fn, built, files)
                     IN  /\ pc' = w.pc
                         /\ notice' = w.notice
                         /\ files' = w.files
                         /\ last_io' = io
    /\ UNCHANGED <<config, heldVars, searchVars, configFile>>

ExportJobs(Answers, IOs, Clocks) == ExportEmpty \/ ExportNonEmpty(Answers, IOs, Clocks)

(***************************************************************************)
(* The inputs the environment supplies.                                    *)
(***************************************************************************)
\* a key left out of a dict
Absent == [t |-> "absent"]

\* job with key k set to v, or without key k when v is Absent
JobWith(job, k, v) ==
    IF v = Absent THEN [x \in DOMAIN job \ {k} |-> job[x]] ELSE (k :> v) @@ job

\* tests/conftest.py 49-59, with the texts shortened
BaseJob ==
    [title |-> PyStr(<<"D", "e", "v">>),
     company |-> PyStr(<<"T", "C">>),
     location |-> PyStr(<<"S", "F">>),
     job_url |-> PyStr(<<"h", "/", "1">>),
     description |-> PyStr(<<"x">>),
     date_posted |-> PyDate(2025, 1, 15),
     min_amount |-> PyInt(120000),
     max_amount |-> PyInt(180000),
     site |-> PyStr(Indeed)]

\* tests/conftest.py 71-81: no date, NaN amounts
NanJob ==
    [title |-> PyStr(<<"J", "r">>),
     company |-> PyStr(<<"X", "Y", "Z">>),
     location |-> PyStr(<<"A", "T">>),
     job_url |-> PyStr(<<"h", "/", "7">>),
     description |-> PyStr(<<"e">>),
     date_posted |-> None,
     min_amount |-> NaN,
     max_amount |-> NaN,
     site |-> PyStr(Glassdoor)]

\* a record whose source reports an unbounded salary
InfJob == JobWith(JobWith(BaseJob, "max_amount", Inf), "site", PyStr(Linkedin))

SampleJobs == {BaseJob, NanJob, InfJob}

\* the values min_amount and max_amount are drawn from
AmountValues ==
    {Absent, None, NaN, Inf, HugeInt, PyInt(0), PyInt(80000), PyInt(1234567),
     PyFloat(1500, TRUE), PyBool(TRUE), PyList(<<>>),
     PyStr(<<"9", "0">>), PyStr(<<"1", ".", "5">>), PyStr(<<"n", "a", "n">>),
     PyStr(<<"i", "n", "f">>), PyStr(<<"a", "b", "c">>)}

\* the values date_posted is drawn from
DateValues ==
    {Absent, None, NaN, PyInt(0), PyInt(20250115), PyBool(FALSE), PyStr(<<>>),
     PyDate(2025, 1, 15), PyDate(2024, 12, 5),
     PyStr(<<"2", "0", "2", "5", "-", "0", "1", "-", "1", "0">>),
     PyStr(<<"2", "0", "2", "5", "-", "0", "1", "-", "1", "5", "T", "1", "0", ":",
             "3", "0", ":", "0", "0">>),
     PyStr(<<"s", "o", "o", "n">>)}

\* the values a text field is drawn from
TextValues == {Absent, None, NaN, PyStr(<<>>), PyStr(<<"C", "o">>)}

TextKeys == {"company", "title", "location", "job_url", "description", "site"}

\* raw records that differ from BaseJob in the amounts, in the date, or in
\* one text field; and the record with no key at all
RawRecords ==
    {JobWith(JobWith(BaseJob, "min_amount", a), "max_amount", b) :
        a \in AmountValues, b \in AmountValues}
    \cup {JobWith(JobWith(NanJob, "date_posted", d), "min_amount", a) :
            d \in DateValues, a \in {NaN, PyInt(80000)}}
    \cup {JobWith(BaseJob, k, v) : k \in TextKeys, v \in TextValues}
    \cup {[k \in {} |-> None]}

\* all sequences over S of length lo..hi
SeqsOf(S, lo, hi) == UNION {[1..n -> S] : n \in lo..hi}


\* more records than the table shows: the sample records in rotation
LongRows ==
    [i \in 1..(TableRows + 1) |->
        IF i % 3 = 1 THEN BaseJob ELSE IF i % 3 = 2 THEN NanJob
        ELSE JobWith(BaseJob, "max_amount", None)]

\* the record sequences export_jobs is called with in SpecExport
ExportInputs ==
    {<<>>, LongRows} \cup {<<r>> : r \in RawRecords} \cup SeqsOf(SampleJobs, 2, MaxRows)

\* the characters search terms are drawn from
TermChars == {"A", "_", "-", " ", "@"}

SearchTerms == SeqsOf(TermChars, 0, MaxTermLen)

DataTerm == <<"D", "a", "t", "a", " ", "E">>

\* the answers at the Filename prompt
FilenameAnswers ==
    {Enter, PyStr(<<"o", "u", "t">>), PyStr(<<"o", ".", "j", "s", "o", "n">>),
     PyStr(<<"o", "[", "/", "b", "]">>)}

\* the answers at the prompts of Spec: Enter, which keeps the default, and
\* typed texts
TermAnswers == {Enter, PyStr(<<"Q", " ", "a">>)}
LocationAnswers == {Enter, PyStr(<<"N", "Y">>)}
DefaultSearchAnswers == {Enter, PyStr(<<"@">>)}
DefaultLocationAnswers == {Enter, PyStr(<<"N", "Y">>), PyStr(<<"N", "Y", " ", "[", "/", "b", "]">>)}
ResultsPerSiteAnswers == {Enter, PyInt(25)}
RemoteOnlyAnswers == {Enter, PyBool(TRUE)}
JobTypeAnswers == {Enter, PyStr(Contract), PyStr(<<"a", "n", "y">>)}
JobBoardsAnswers == {Enter, PyStr(<<"3", ",", "1">>), PyStr(<<"9">>)}
MenuFilenameAnswers == {Enter, PyStr(<<"o", "[", "/", "b", "]">>)}
DefaultAnswer == {Enter}
DayClocks == {Morning}
WriteCompletes == {"ok"}

\* how opening and writing a file end
IOOutcomes == {"ok", "open_fails", "write_fails"}

\* a record whose title closes a markup tag that was never opened
TagJob == JobWith(BaseJob, "title", PyStr(<<"Q", "A", " ", "[", "/", "b", "]">>))

\* the messages of the exceptions scrape_jobs raises
ErrorMessages == {<<"4", "0", "3">>, <<"[", "/", "]">>}

\* what scrape_jobs does in Spec
ScrapeOutcomes ==
    {[kind |-> "raise", msg |-> m] : m \in ErrorMessages}
    \cup {[kind |-> "none"]}
    \cup {[kind |-> "rows", rows |-> r] :
            r \in {<<>>, <<NanJob, BaseJob>>, <<InfJob>>, <<BaseJob, TagJob>>}}

(***************************************************************************)
(* Spec: the whole program, from the start of main().                      *)
(***************************************************************************)
\* the configuration files main() starts with in Spec
StartFiles ==
    {Missing, InvalidJson,
     JsonFile(JsonDict([default_search |-> PyStr(DataTerm), job_type |-> PyStr(Fulltime)])),
     JsonFile(JsonDict([job_boards |-> None]))}

InitWith(file) ==
    /\ pc = "Start"
    /\ choice = ""
    /\ config = <<>>
    /\ jobs = <<>>
    /\ last_search_term = <<>>
    /\ configFile = file
    /\ files = <<>>
    /\ nextId = 0
    /\ today = 1
    /\ notice = ""
    /\ default_name = <<>>
    /\ filename = <<>>
    /\ cleansheet_jobs = <<>>
    /\ prompts = <<>>
    /\ scrape_calls = <<>>
    /\ last_io = "none"
    /\ steps = 0

Init == \E file \in StartFiles : InitWith(file)

Next ==
    \/ LoadConfig
    \/ SearchJobs(TermAnswers, LocationAnswers, ScrapeOutcomes)
    \/ EnterSettings
    \/ EditDefaultSearch(DefaultSearchAnswers)
    \/ EditDefaultLocation(DefaultLocationAnswers)
    \/ EditResultsPerSite(ResultsPerSiteAnswers)
    \/ EditRemoteOnly(RemoteOnlyAnswers)
    \/ EditJobType(JobTypeAnswers)
    \/ EditJobBoards(JobBoardsAnswers)
    \/ SettingsBack(IOOutcomes)
    \/ ExportJobs(MenuFilenameAnswers, IOOutcomes, DayClocks)
    \/ Exit

Spec == Init /\ [][Next]_vars

(***************************************************************************)
(* SpecExport: export_jobs called with the record sequences of             *)
(* ExportInputs, as after a search that returned them, at the last menu    *)
(* choice of a run.                                                        *)
(***************************************************************************)
InitHeld(js, term) ==
    /\ pc = "MainMenu"
    /\ choice = "1"
    /\ config = DEFAULT_CONFIG
    /\ jobs = js
    /\ last_search_term = term
    /\ configFile = Missing
    /\ files = <<>>
    /\ nextId = 0
    /\ today = 1
    /\ notice = IF js = <<>> THEN "No jobs found" ELSE "Found"
    /\ default_name = <<>>
    /\ filename = <<>>
    /\ cleansheet_jobs = <<>>
    /\ prompts = <<>>
    /\ scrape_calls = <<>>
    /\ last_io = "none"
    /\ steps = MaxSteps - 1

InitExport == \E js \in ExportInputs : InitHeld(js, DataTerm)

NextExport == ExportJobs(FilenameAnswers, IOOutcomes, WallClocks)

SpecExport == InitExport /\ [][NextExport]_vars

(***************************************************************************)
(* SpecFilename: export_jobs called with one record and the search terms   *)
(* of SearchTerms (the empty term included, as a direct call passes it).   *)
(***************************************************************************)
InitFilename == \E term \in SearchTerms : InitHeld(<<BaseJob>>, term)

NextFilename == ExportNonEmpty(DefaultAnswer, WriteCompletes, WallClocks)

SpecFilename == InitFilename /\ [][NextFilename]_vars

(***************************************************************************)
(* SpecConfig: main() started on the configuration files of ConfigFiles,   *)
(* then the settings sub-menu.                                             *)
(***************************************************************************)
\* the dict a choice of values (Absent for a key left out) makes
DictOf(ch) == [k \in {x \in DOMAIN ch : ch[x] # Absent} |-> ch[k]]

\* the dicts the configuration files hold: any subset of the recognized
\* keys, a null where the program expects a value, and a key it does not
\* know
FileDicts ==
    {DictOf(ch) : ch \in
        [default_search : {Absent, None, PyStr(DataTerm)},
         default_location : {Absent, PyStr(<<"N", "Y">>)},
         results_per_site : {Absent, PyInt(50)},
         remote_only : {Absent, PyBool(TRUE)},
         job_type : {Absent, None, PyStr(Fulltime)},
         job_boards : {Absent, None, PyList(<<Linkedin, Indeed>>)},
         theme : {Absent, PyStr(<<"d", "a", "r", "k">>)}]}

ConfigFiles ==
    {Missing, Unreadable, EmptyFile, InvalidJson, Undecodable,
     JsonFile([j |-> "null"]), JsonFile([j |-> "number", n |-> 5]),
     JsonFile([j |-> "array", items |-> <<>>])}
    \cup {JsonFile(JsonDict(d)) : d \in FileDicts}

InitConfig == \E file \in ConfigFiles : InitWith(file)

NextConfig ==
    \/ LoadConfig
    \/ EnterSettings
    \/ EditDefaultSearch(DefaultSearchAnswers)
    \/ EditJobType(JobTypeAnswers)
    \/ SettingsBack(IOOutcomes)

SpecConfig == InitConfig /\ [][NextConfig]_vars

(***************************************************************************)
(* SpecSettings: two edits in the Settings sub-menu, of the job type and   *)
(* of the job boards, after main() loaded the configuration.               *)
(***************************************************************************)
\* the configuration files main() started with
SettingsFiles ==
    {Missing,
     JsonFile(JsonDict([job_type |-> PyStr(Fulltime)])),
     JsonFile(JsonDict([job_boards |-> PyList(<<Linkedin>>), job_type |-> PyStr(Contract)]))}

\* what is typed at the "Selection" prompt
SelectionAnswers ==
    {Enter,
     PyStr(<<"A", "L", "L">>),
     PyStr(<<"A", "l", "l">>),
     PyStr(<<"1", ",", "3">>),
     PyStr(<<"3", ",", "1">>),
     PyStr(<<"1", ",", "1">>),
     PyStr(<<"1", ",", "9", "9", ",", "2">>),
     PyStr(<<"9", "9">>),
     PyStr(<<"0">>),
     PyStr(<<"x">>),
     PyStr(<<" ", "2", " ">>),
     PyStr(<<"1", ",", ",", "2">>),
     PyStr(<<"-", "1">>),
     PyStr(<<"5">>),
     PyStr(<<"2", ",", "x">>)}

\* what is typed at the "Job type" prompt
TypedJobTypes ==
    {Enter, PyStr(Fulltime), PyStr(Parttime), PyStr(Internship), PyStr(Contract),
     PyStr(<<"a", "n", "y">>),
     PyStr(<<"C", "o", "n", "t", "r", "a", "c", "t">>),
     PyStr(<<"(", "n", "o", "n", "e", ")">>)}

InitSettings ==
    \E file \in SettingsFiles :
        /\ pc = "Settings"
        /\ choice = "2"
        /\ config = load_config(file).config
        /\ jobs = <<>>
        /\ last_search_term = <<>>
        /\ configFile = file
        /\ files = <<>>
        /\ nextId = 0
        /\ today = 1
        /\ notice = "Settings"
        /\ default_name = <<>>
        /\ filename = <<>>
        /\ cleansheet_jobs = <<>>
        /\ prompts = <<>>
        /\ scrape_calls = <<>>
        /\ last_io = "none"
        /\ steps = MaxSteps - 2

NextSettings ==
    \/ EditJobType(TypedJobTypes)
    \/ EditJobBoards(SelectionAnswers)

SpecSettings == InitSettings /\ [][NextSettings]_vars

(***************************************************************************)
(* SpecTwice: two exports of a held result set in which a raw record may   *)
(* occur more than once.                                                   *)
(***************************************************************************)
\* the result sets held: BaseJob has a date, NanJob has none
HeldTwice == SeqsOf({BaseJob, NanJob}, 2, MaxRows)

InitTwice ==
    \E js \in HeldTwice :
        /\ pc = "MainMenu"
        /\ choice = "1"
        /\ config = DEFAULT_CONFIG
        /\ jobs = js
        /\ last_search_term = DataTerm
        /\ configFile = Missing
        /\ files = <<>>
        /\ nextId = 0
        /\ today = 1
        /\ notice = "Found"
        /\ default_name = <<>>
        /\ filename = <<>>
        /\ cleansheet_jobs = <<>>
        /\ prompts = <<>>
        /\ scrape_calls = <<>>
        /\ last_io = "none"
        /\ steps = MaxSteps - 2

NextTwice == ExportNonEmpty(DefaultAnswer, IOOutcomes, WallClocks)

SpecTwice == InitTwice /\ [][NextTwice]_vars

(***************************************************************************)
(* Properties of the export document and of the export records             *)
(* (SpecExport).                                                           *)
(***************************************************************************)
JobspyHarvest == <<"j", "o", "b", "s", "p", "y", "_", "h", "a", "r", "v", "e", "s", "t">>

\* export_jobs has just run on held records
Exported == choice = "3" /\ jobs # <<>>

\* the keys of an export record
ExportFields ==
    {"id", "company", "title", "location", "url", "description", "salary",
     "datePosted", "source", "status", "tags"}

\* C1: when the write succeeds, the named file holds one JSON object with the
\* members exportType = "jobspy_harvest" and jobs = the list of the export
\* records.
C1_DocumentIsHarvestObject ==
    (Exported /\ last_io = "ok") =>
        LET doc == files[filename]
        IN  /\ doc.json = "object"
            /\ DOMAIN doc.members = {"exportType", "jobs"}
            /\ doc.members.exportType = JobspyHarvest
            /\ doc.members.jobs = cleansheet_jobs

\* C2: an export of N raw records produces N export records in input order,
\* each with exactly the eleven fields, status "Saved", an empty tags list,
\* and ids that are pairwise distinct.
C2_OneRecordPerRawRecord ==
    Exported =>
        /\ Len(cleansheet_jobs) = Len(jobs)
        /\ \A i \in DOMAIN cleansheet_jobs :
              /\ DOMAIN cleansheet_jobs[i] = ExportFields
              /\ cleansheet_jobs[i].status = Saved
              /\ cleansheet_jobs[i].tags = <<>>
              /\ cleansheet_jobs[i].url = str(GetOr(jobs[i], "job_url", PyStr(<<>>)))
              /\ cleansheet_jobs[i].source = str(GetOr(jobs[i], "site", PyStr(<<>>)))
        /\ \A i, k \in DOMAIN cleansheet_jobs :
              i # k => cleansheet_jobs[i].id # cleansheet_jobs[k].id

\* an amount is valid when it is present, not null and not NaN as a float;
\* a failing coercion makes it invalid
ValidAmount(v) == v.t # "None" /\ float(v).exc = "none" /\ float(v).kind # "nan"

\* a valid amount as an integer with thousands separators
AmountText(v) ==
    IF int(v).exc = "none" THEN Commas(int(v).n)
    ELSE IF v.t = "str" /\ IsDecimalString(v.s)
    THEN Commas(ParseNat(SubSeq(v.s, 1, (CHOOSE i \in DOMAIN v.s : v.s[i] = ".") - 1)))
    ELSE <<"i", "n", "f">>

\* the salary text by the validity of the two amounts
SalaryByValidity(job) ==
    LET lo == Get(job, "min_amount")
        hi == Get(job, "max_amount")
    IN  IF ValidAmount(lo) /\ ValidAmount(hi)
        THEN <<"$">> \o AmountText(lo) \o <<" ", "-", " ", "$">> \o AmountText(hi)
        ELSE IF ValidAmount(lo) THEN <<"$">> \o AmountText(lo) \o <<"+">>
        ELSE IF ValidAmount(hi) THEN <<"U", "p", " ", "t", "o", " ", "$">> \o AmountText(hi)
        ELSE <<>>

\* C3: the salary of every raw record is "$<min> - $<max>" when both amounts
\* are valid, "$<min>+" when only the minimum is, "Up to $<max>" when only
\* the maximum is, and empty when neither is, the amounts as integers with
\* thousands separators.
C3_SalaryFollowsValidity ==
    Exported =>
        /\ Len(cleansheet_jobs) = Len(jobs)
        /\ \A i \in DOMAIN cleansheet_jobs :
              cleansheet_jobs[i].salary = SalaryByValidity(jobs[i])

\* C4: the salary derivation raises for no value of the amounts: export_jobs
\* produces every record and goes on to the write.
C4_SalaryNeverRaises ==
    Exported => (pc # "Crashed" /\ Len(cleansheet_jobs) = Len(jobs) /\ last_io # "none")

\* the date format of a calendar day the clock has shown
IsCurrentDate(text) == \E d \in 1..today : text = StrftimeYmd(DayDate(d))

\* C5 as stated: datePosted is the strftime form of a value that has one,
\* the first 10 characters of str(value) for every other non-null value, and
\* the current date only when date_posted is null or absent.
C5_DateOfNonNull ==
    \A i \in DOMAIN cleansheet_jobs :
        LET v == Get(jobs[i], "date_posted")
            text == cleansheet_jobs[i].datePosted
        IN  Exported =>
              IF v.t = "datetime" THEN text = StrftimeYmd(v)
              ELSE IF v.t # "None" THEN text = Prefix(str(v), 10)
              ELSE IsCurrentDate(text)

\* C5 amended: datePosted is the strftime form of a value that has one, the
\* first 10 characters of str(value) for every other truthy value, and the
\* current date when date_posted is null, absent or falsy ("", 0, False).
C5_DateOfTruthy ==
    \A i \in DOMAIN cleansheet_jobs :
        LET v == Get(jobs[i], "date_posted")
            text == cleansheet_jobs[i].datePosted
        IN  Exported =>
              /\ IF v.t = "datetime" THEN text = StrftimeYmd(v)
                 ELSE IF v.t \notin {"None"} /\ Truthy(v) THEN text = Prefix(str(v), 10)
                 ELSE IsCurrentDate(text)
              /\ v = PyDate(2024, 12, 5) =>
                    text = <<"2", "0", "2", "4", "-", "1", "2", "-", "0", "5">>
              /\ v = PyStr(<<"2", "0", "2", "5", "-", "0", "1", "-", "1", "5", "T", "1",
                             "0", ":", "3", "0", ":", "0", "0">>) =>
                    text = <<"2", "0", "2", "5", "-", "0", "1", "-", "1", "5">>

\* an empty date_posted was exported with the date of the day
C5_Witness ==
    /\ Exported
    /\ Len(cleansheet_jobs) = 1
    /\ Get(jobs[1], "date_posted") = PyStr(<<>>)
    /\ cleansheet_jobs[1].datePosted = StrftimeYmd(DayDate(today))

(***************************************************************************)
(* Properties of the default filename (SpecFilename).                      *)
(***************************************************************************)
\* the default name without "_<stamp><offset>.json"
FilenameBase ==
    LET tail == Len(DefaultName(<<>>, Reading(1, Morning))) - Len(JobsLiteral)
    IN  SubSeq(default_name, 1, Len(default_name) - tail)

\* the characters of a base: lower-case letters, digits, "_" and "-"
LowerWordOrDash == WordOrDash \ Range(UpperCase)

\* lowercase, replace, collapse, strip: the steps in the order of the
\* description
BaseBySteps(term) == Strip(CollapseUnderscores(ReplaceSpecial(Lower(term))), "_")

\* C6: the base of the default filename is the search term lowercased, every
\* character other than an alphanumeric, "_" or "-" replaced by "_", runs of
\* "_" collapsed to one and leading and trailing "_" stripped; it is "jobs"
\* for the empty term.
C6_FilenameBase ==
    choice = "3" =>
        LET base == FilenameBase
        IN  /\ base = IF last_search_term = <<>> THEN JobsLiteral
                      ELSE BaseBySteps(last_search_term)
            /\ \A i \in DOMAIN base :
                  base[i] \in LowerWordOrDash
            /\ \A i \in 1..(Len(base) - 1) : ~(base[i] = "_" /\ base[i + 1] = "_")
            /\ base # <<>> => (base[1] # "_" /\ base[Len(base)] # "_")
            /\ last_search_term = <<"A", " ", "@", "A">> => base = <<"a", "_", "a">>

\* a term with an upper-case letter and a run of replaced characters was
\* exported under the name a_a_...
C6_Witness ==
    /\ choice = "3"
    /\ last_search_term = <<"A", " ", "@", "A">>
    /\ FilenameBase = <<"a", "_", "a">>
    /\ filename = default_name

(***************************************************************************)
(* Properties of export_jobs within the main loop (Spec).                  *)
(***************************************************************************)
\* C7: export_jobs on an empty held list, as before any successful search,
\* is a no-op: no filename is asked for, no file is written, and the held
\* records, the held term and the configuration are unchanged.
C7_EmptyExportIsNoOp ==
    [][(pc = "MainMenu" /\ jobs = <<>> /\ choice' = "3") =>
          /\ files' = files
          /\ default_name' = <<>> /\ filename' = <<>>
          /\ last_io' = "none"
          /\ notice' = "No jobs to export"
          /\ jobs' = jobs /\ last_search_term' = last_search_term
          /\ config' = config /\ configFile' = configFile
          /\ pc' = "MainMenu"]_vars

\* choice 3 was answered before any search
C7_Witness ==
    /\ choice = "3"
    /\ notice = "No jobs to export"
    /\ steps = 1
    /\ jobs = <<>> /\ files = <<>>

\* C8: when opening or writing the export file fails, the failure is
\* reported, no exception reaches the main loop, and the main menu goes on
\* with the held records and the held term unchanged.
C8_FailedWriteIsReported ==
    [][(pc = "MainMenu" /\ choice' = "3" /\ last_io' \in {"open_fails", "write_fails"}) =>
          /\ notice' = "Export failed"
          /\ pc' = "MainMenu"
          /\ jobs' = jobs /\ last_search_term' = last_search_term
          /\ jobs' # <<>>]_vars

(***************************************************************************)
(* Properties of load_config and save_config (SpecConfig).                 *)
(***************************************************************************)
\* load_config has just returned for a file that holds a JSON object
LoadedObject ==
    /\ pc = "MainMenu" /\ notice = "Banner"
    /\ configFile.kind = "json" /\ configFile.doc.j = "object"

\* C9: for a file holding an object over a subset of the recognized keys,
\* every key of the file has the file's value in the returned record, a null
\* included, and every recognized key the file lacks has its default.
C9_FileOverDefaults ==
    LoadedObject =>
        \A k \in ConfigKeys :
            LET members == configFile.doc.members
            IN  IF k \in DOMAIN members
                THEN /\ JsonValue(config[k]) = members[k]
                     /\ members[k].j = "null" => config[k] = None
                ELSE config[k] = DEFAULT_CONFIG[k]

\* a file with a null job_boards and no default_location was loaded
C9_Witness ==
    /\ LoadedObject
    /\ DOMAIN configFile.doc.members = {"job_boards", "default_search"}
    /\ configFile.doc.members.job_boards = [j |-> "null"]
    /\ config.job_boards = None
    /\ config.default_search = PyStr(DataTerm)
    /\ config.default_location = PyStr(Usa)

\* save_config has just written the file
ConfigSaved == pc = "MainMenu" /\ notice = "Main menu" /\ last_io = "ok"

\* C10 as stated: the configuration has exactly the six recognized keys.
C10_ExactlySixKeys ==
    pc \in {"MainMenu", "Settings"} => DOMAIN config = ConfigKeys

\* C10 amended: the configuration has the six recognized keys and, with the
\* file's value, every other key of the object the file held; those keys
\* stay in the configuration and are in the file save_config writes.
C10_UnknownKeysKept ==
    pc \in {"MainMenu", "Settings"} =>
        /\ ConfigKeys \subseteq DOMAIN config
        /\ IF configFile.kind = "json" /\ configFile.doc.j = "object"
           THEN LET members == configFile.doc.members
                IN  /\ DOMAIN config \ ConfigKeys = DOMAIN members \ ConfigKeys
                    /\ \A k \in DOMAIN config \ ConfigKeys :
                          JsonValue(config[k]) = members[k]
                    /\ ConfigSaved => configFile = JsonFile(JsonDict(config))
           ELSE DOMAIN config = ConfigKeys

\* a file with the key theme was loaded, default_search was edited, and the
\* file save_config wrote has the new default_search and theme
C10_Witness ==
    /\ ConfigSaved
    /\ "theme" \in DOMAIN config
    /\ config.default_search = PyStr(<<"@">>)
    /\ configFile.doc.members.default_search = [j |-> "string", s |-> <<"@">>]
    /\ configFile.doc.members.theme = [j |-> "string", s |-> <<"d", "a", "r", "k">>]

\* the file is not a usable configuration: it cannot be read or decoded, is
\* empty, is not JSON, or is JSON that is not an object
Unusable(file) ==
    \/ file.kind \in {"unreadable", "empty", "invalid", "undecodable"}
    \/ file.kind = "json" /\ file.doc.j # "object"

\* load_config has just been called by main()
JustLoaded == pc # "Start" /\ steps = 0

\* C11: for every file that is not a usable configuration load_config raises
\* nothing and returns the exact default record, as for a missing file.
C11_UnusableFileGivesDefaults ==
    (JustLoaded /\ Unusable(configFile)) => (pc = "MainMenu" /\ config = DEFAULT_CONFIG)

\* C12: for a record x with the six recognized keys, save_config(x) followed
\* by load_config() returns a record equal to x, a null job_type included,
\* whatever the file held before: the file is exactly the dump of x.
C12_SaveLoadRoundTrip ==
    (ConfigSaved /\ ConfigKeys \subseteq DOMAIN config) =>
        /\ configFile = save_config(config)
        /\ load_config(configFile).exc = "none"
        /\ load_config(configFile).config = config

\* a record with a null job_type and an edited default_search was saved over
\* a file and reads back as itself
C12_Witness ==
    /\ ConfigSaved
    /\ DOMAIN config = ConfigKeys
    /\ config.job_type = None
    /\ config.default_search = PyStr(<<"@">>)
    /\ load_config(configFile).config = config

\* the latest main-menu choice was a search and nothing was chosen since
Searched == choice = "1" /\ pc \in {"MainMenu", "Crashed"}

\* the value the "Job title / keywords" prompt of the latest search returned
EnteredTerm == prompts[1].value

\* C13: a search whose term (typed, or taken from the configured default) is
\* the empty string returns the empty sequence and the empty term at once:
\* scrape_jobs is not called and the Location prompt is not shown.
C13_EmptyTermReturnsAtOnce ==
    (Searched /\ EnteredTerm = PyStr(<<>>)) =>
        /\ pc = "MainMenu"
        /\ jobs = <<>>
        /\ last_search_term = <<>>
        /\ scrape_calls = <<>>
        /\ Len(prompts) = 1

\* an empty-term search that followed a successful one
C13_Witness ==
    /\ Searched
    /\ EnteredTerm = PyStr(<<>>)
    /\ steps >= 2
    /\ jobs = <<>>
    /\ scrape_calls = <<>>


\* what scrape_jobs did in the latest search
Scraped == scrape_calls[1].result

\* scrape_jobs raised, returned None or returned a table without rows
NothingFound ==
    \/ Scraped.kind \in {"raise", "none"}
    \/ Scraped.kind = "rows" /\ Scraped.rows = <<>>

\* C14: a search with a non-empty term in which scrape_jobs raised, returned
\* None or returned zero rows does not raise; it returns the empty sequence
\* and the term that was entered.
C14_FailedSearchKeepsTerm ==
    (Searched /\ Len(scrape_calls) = 1 /\ NothingFound) =>
        /\ pc = "MainMenu"
        /\ notice \in {"Search error", "No jobs found"}
        /\ jobs = <<>>
        /\ PyStr(last_search_term) = EnteredTerm
        /\ last_search_term # <<>>

\* C15: a search in which scrape_jobs returned a table of N >= 1 rows returns
\* the N records of the rows, in the order of the rows, and the term that
\* was entered.
C15_RowsReturnedInOrder ==
    (Searched /\ Len(scrape_calls) = 1 /\ Scraped.kind = "rows" /\ Scraped.rows # <<>>) =>
        /\ pc = "MainMenu"
        /\ jobs = Scraped.rows
        /\ PyStr(last_search_term) = EnteredTerm

\* the value the "Location" prompt of the latest search returned
EnteredLocation == prompts[2].value

\* C16: a search with a non-empty term calls scrape_jobs exactly once, with
\* the board list, the results cap, the remote-only flag and the job type of
\* the configuration as it is at the search, the term and the location that
\* were entered, and the country "USA".
C16_OneCallWithTheConfiguration ==
    (Searched /\ Len(prompts) >= 1 /\ EnteredTerm.t = "str" /\ EnteredTerm.s # <<>>) =>
        /\ Len(prompts) = 2
        /\ Len(scrape_calls) = 1
        /\ scrape_calls[1].args.site_name = config["job_boards"]
        /\ scrape_calls[1].args.results_wanted = config["results_per_site"]
        /\ scrape_calls[1].args.is_remote = config["remote_only"]
        /\ scrape_calls[1].args.job_type = config["job_type"]
        /\ scrape_calls[1].args.search_term = EnteredTerm
        /\ scrape_calls[1].args.location = EnteredLocation
        /\ scrape_calls[1].args.country_indeed = PyStr(<<"U", "S", "A">>)

(***************************************************************************)
(* Properties of the Settings edits (SpecSettings).                        *)
(***************************************************************************)
\* choice 6 has just been answered
BoardsEdited == pc = "Settings" /\ Len(prompts) = 1 /\ prompts[1].prompt = "Selection"

\* the numbers of a selection that is a comma-separated list of integers
Indices(selection) ==
    LET parts == Split(selection, ",")
    IN  [i \in DOMAIN parts |-> IntToken(parts[i]).n]

\* the selection is a comma-separated list of integers
IsIndexList(selection) ==
    \A part \in Range(Split(selection, ",")) : IntToken(part).exc = "none"

\* the in-range numbers of a list of numbers
InRange(indices) == {n \in Range(indices) : 1 <= n /\ n <= Len(ALL_JOB_BOARDS)}

RECURSIVE CatalogEntries(_, _)
\* the catalog entries at the positions in S, from position i on, in the
\* order of the catalog
CatalogEntries(S, i) ==
    IF i > Len(ALL_JOB_BOARDS) THEN <<>>
    ELSE (IF i \in S THEN <<ALL_JOB_BOARDS[i]>> ELSE <<>>) \o CatalogEntries(S, i + 1)

\* the selection asked for by what was typed at choice 6
BoardsFor(selection) ==
    IF Lower(selection) = <<"a", "l", "l">> THEN PyList(ALL_JOB_BOARDS)
    ELSE PyList(CatalogEntries(InRange(Indices(selection)), 1))

\* C17: select_job_boards returns the whole catalog for "all" in any letter
\* case, and for a comma-separated list of integers with at least one in
\* range the catalog entries at the in-range numbers, in catalog order.
C17_BoardsInCatalogOrder ==
    LET selection == prompts[1].value.s
    IN  (/\ BoardsEdited
         /\ \/ Lower(selection) = <<"a", "l", "l">>
            \/ IsIndexList(selection) /\ InRange(Indices(selection)) # {}) =>
            config["job_boards"] = BoardsFor(selection)

\* the step is an answer to choice 6
BoardsEdit ==
    /\ pc = "Settings"
    /\ steps' = steps + 1
    /\ Len(prompts') = 1
    /\ prompts'[1].prompt = "Selection"

\* C18: for a selection that is not "all" and that is not a comma-separated
\* list of integers, or has no number in range, select_job_boards returns
\* the previous selection and shows the warning, in both cases.
C18_KeptWithWarning ==
    [][LET selection == prompts'[1].value.s
       IN  (/\ BoardsEdit
            /\ Lower(selection) # <<"a", "l", "l">>
            /\ \/ ~IsIndexList(selection)
               \/ InRange(Indices(selection)) = {}) =>
               /\ config'["job_boards"] = config["job_boards"]
               /\ notice' = "Invalid selection"]_vars

\* the step is an answer to choice 5
JobTypeEdit ==
    /\ pc = "Settings"
    /\ steps' = steps + 1
    /\ Len(prompts') = 1
    /\ prompts'[1].prompt = "Job type"

\* the job types that can be set
ValidJobTypes == {PyStr(Fulltime), PyStr(Parttime), PyStr(Internship), PyStr(Contract)}

\* C19 as stated: at choice 5 one of fulltime, parttime, internship,
\* contract is stored, and for any other input job_type is after the edit
\* what it was before.
C19_InvalidKeepsPrevious ==
    [][JobTypeEdit =>
          IF prompts'[1].value \in ValidJobTypes
          THEN config'["job_type"] = prompts'[1].value
          ELSE config'["job_type"] = config["job_type"]]_vars

\* C19: at choice 5 one of fulltime, parttime, internship, contract is
\* stored, and for any other input job_type is None after the edit, whatever
\* it was before; no other key changes.
C19_InvalidClearsJobType ==
    [][JobTypeEdit =>
          /\ IF prompts'[1].value \in ValidJobTypes
             THEN config'["job_type"] = prompts'[1].value
             ELSE config'["job_type"] = None
          /\ \A k \in DOMAIN config \ {"job_type"} : config'[k] = config[k]
          /\ DOMAIN config' = DOMAIN config]_vars

\* "any" was typed first, for a configuration loaded with job_type
\* "fulltime", and job_type is None
C19_Witness ==
    /\ pc = "Settings"
    /\ steps = MaxSteps - 1
    /\ configFile = JsonFile(JsonDict([job_type |-> PyStr(Fulltime)]))
    /\ prompts = <<Asked("Job type", PyStr(<<"a", "n", "y">>))>>
    /\ config["job_type"] = None

(***************************************************************************)
(* Properties of the main loop (Spec).                                     *)
(***************************************************************************)
\* the step is a call of search_jobs from the main menu
SearchStep == pc = "MainMenu" /\ steps' = steps + 1 /\ choice' = "1"

\* C20: the records and the term held by main() are [] and "" at the start;
\* a step that is not a search leaves them as they are (Settings, Export and
\* Exit included), and a search that returns replaces both with what it
\* returned: [] and "" for an empty term, the rows and the entered term when
\* scrape_jobs gave rows, and [] and the entered term otherwise, whatever
\* was held before.
C20_HeldPairIsLastSearch ==
    /\ jobs = <<>> /\ last_search_term = <<>>
    /\ [][/\ ~SearchStep => (jobs' = jobs /\ last_search_term' = last_search_term)
          /\ (SearchStep /\ pc' = "MainMenu") =>
                LET term == prompts'[1].value.s
                IN  IF term = <<>>
                    THEN jobs' = <<>> /\ last_search_term' = <<>>
                    ELSE /\ last_search_term' = term
                         /\ jobs' = IF scrape_calls'[1].result.kind = "rows"
                                    THEN scrape_calls'[1].result.rows
                                    ELSE <<>>]_vars

\* the records of a search are still held after Settings was entered and
\* left
C20_Witness ==
    /\ ConfigSaved
    /\ Len(scrape_calls) = 1
    /\ jobs = <<InfJob>>
    /\ jobs = scrape_calls[1].result.rows
    /\ last_search_term = <<"Q", " ", "a">>

\* C21: no error ends the main loop: whatever the search, the read and the
\* write of the configuration file and the write of the export file do, the
\* process is at the main menu, in the Settings sub-menu, or has ended
\* through choice 4 of the main menu.
C21_OnlyExitEndsTheLoop ==
    /\ pc \in {"Start", "MainMenu", "Settings", "Exited"}
    /\ pc = "Exited" => choice = "4"

(***************************************************************************)
(* Properties of a visit to the Settings sub-menu (Spec).                  *)
(***************************************************************************)
\* the step answers choice 0 of the Settings sub-menu
BackStep == pc = "Settings" /\ notice' \in {"Main menu", "OSError"}

\* the step answers one of the choices 1..6 of the Settings sub-menu
EditStep == pc = "Settings" /\ steps' = steps + 1 /\ ~BackStep

\* the keys on which two configurations differ
Changed(a, b) == {k \in DOMAIN a : b[k] # a[k]}

\* C22: in the Settings sub-menu the configuration file is written at choice
\* 0 and only there, with the configuration in memory, and control is then
\* at the main menu; a choice 1..6 changes at most one field of the
\* configuration in memory, leaves the file as it is and comes back to the
\* sub-menu.
C22_SavedOnceOnLeaving ==
    [][/\ BackStep =>
            /\ configFile' = save_config(config)
            /\ config' = config
            /\ pc' = "MainMenu"
       /\ EditStep =>
            /\ configFile' = configFile
            /\ DOMAIN config' = DOMAIN config
            /\ Cardinality(Changed(config, config')) <= 1
            /\ pc' = "Settings"
       /\ ~BackStep => configFile' = configFile]_vars

(***************************************************************************)
(* Properties of two conversions of one raw record (SpecTwice).            *)
(***************************************************************************)
\* the step is an export of held records
ExportStep == pc = "MainMenu" /\ steps' = steps + 1 /\ choice' = "3"

\* two export records agree on every field but the identifier and, for a
\* raw record without a date of its own, the date
SameButIdAndDay(job, a, b) ==
    /\ \A f \in ExportFields \ {"id", "datePosted"} : a[f] = b[f]
    /\ Truthy(Get(job, "date_posted")) => a.datePosted = b.datePosted
    /\ a.id # b.id

\* C23 as stated: the export records of one export that were made from the
\* same raw record are equal in every field.
C23_SameRecordSameExport ==
    \A i, j \in DOMAIN cleansheet_jobs :
        jobs[i] = jobs[j] => cleansheet_jobs[i] = cleansheet_jobs[j]

\* C23: two export records made from the same raw record, in one export or
\* in two exports of the held records, are equal in every field except id,
\* which is different for every record made, and except datePosted when the
\* raw record has no date of its own (the date of the clock is taken).
C23_SameExceptIdAndDay ==
    /\ [](\A i, j \in DOMAIN cleansheet_jobs :
            (i # j /\ jobs[i] = jobs[j]) =>
                SameButIdAndDay(jobs[i], cleansheet_jobs[i], cleansheet_jobs[j]))
    /\ [][ExportStep =>
            \A i \in DOMAIN cleansheet_jobs, j \in DOMAIN cleansheet_jobs' :
                jobs[i] = jobs[j] =>
                    SameButIdAndDay(jobs[i], cleansheet_jobs[i], cleansheet_jobs'[j])]_vars

\* a second export of two equal records without a date, in which midnight
\* passed between the two conversions
C23_Witness ==
    /\ choice = "3"
    /\ steps = MaxSteps
    /\ jobs = <<NanJob, NanJob>>
    /\ Len(cleansheet_jobs) = 2
    /\ cleansheet_jobs[1].id # cleansheet_jobs[2].id
    /\ cleansheet_jobs[1].datePosted # cleansheet_jobs[2].datePosted
    /\ cleansheet_jobs[1].company = cleansheet_jobs[2].company

(***************************************************************************)
(* The data model of the configuration (SpecSettings).                     *)
(***************************************************************************)
\* boards is a non-empty list of catalog entries in which no entry occurs
\* twice
IsBoardSet(boards) ==
    /\ boards.t = "list"
    /\ boards.xs # <<>>
    /\ \A i \in DOMAIN boards.xs : boards.xs[i] \in Range(ALL_JOB_BOARDS)
    /\ \A i, j \in DOMAIN boards.xs : boards.xs[i] = boards.xs[j] => i = j

\* C24: after any Settings edits of the default configuration job_type is
\* None or one of fulltime, parttime, internship, contract, and job_boards
\* is a non-empty list of catalog entries without repetition.
C24_ConfigKeepsItsDataModel ==
    configFile = Missing =>
        /\ config["job_type"] \in {None} \cup ValidJobTypes
        /\ IsBoardSet(config["job_boards"])

(***************************************************************************)
(* The held records and their term (Spec).                                 *)
(***************************************************************************)
\* C25: while the menu loop runs, held records come with a non-empty held
\* term, the term entered in the search whose scrape_jobs call gave those
\* records; and when they are exported the name export_jobs builds has the
\* base made from that term, not the fallback "jobs".
C25_RecordsComeWithTheirTerm ==
    (pc \in {"MainMenu", "Settings", "Exited"} /\ jobs # <<>>) =>
        /\ last_search_term # <<>>
        /\ Len(scrape_calls) = 1
        /\ scrape_calls[1].args.search_term = PyStr(last_search_term)
        /\ scrape_calls[1].result.kind = "rows"
        /\ scrape_calls[1].result.rows = jobs
        /\ choice = "3" =>
              /\ FilenameBase = BaseBySteps(last_search_term)
              /\ FilenameBase # JobsLiteral

\* the records of a search for "Q a" were written under the default name,
\* whose base is q_a
C25_Witness ==
    /\ pc = "MainMenu"
    /\ choice = "3"
    /\ last_io = "ok"
    /\ jobs = <<NanJob, BaseJob>>
    /\ last_search_term = <<"Q", " ", "a">>
    /\ FilenameBase = <<"q", "_", "a">>
    /\ filename = default_name
    /\ filename \in DOMAIN files

(***************************************************************************)
(* The text fields of the export records (SpecExport).                     *)
(***************************************************************************)
\* the text fields of an export record and the raw fields they are made
\* from
TextFields ==
    {<<"company", "company">>, <<"title", "title">>, <<"location", "location">>,
     <<"description", "description">>, <<"url", "job_url">>, <<"source", "site">>}

\* C26: each text field of an export record is the text form of its raw
\* field when the raw record holds a value there, and the empty string when
\* the raw field is absent or null.
C26_TextFieldsOfRawFields ==
    Exported =>
        \A i \in DOMAIN cleansheet_jobs : \A p \in TextFields :
            IF p[2] \notin DOMAIN jobs[i] \/ jobs[i][p[2]] = None
            THEN cleansheet_jobs[i][p[1]] = <<>>
            ELSE cleansheet_jobs[i][p[1]] = str(jobs[i][p[2]])

(***************************************************************************)
(* The shape of the default filename (SpecFilename).                       *)
(***************************************************************************)
\* text is made of n digits
IsDigits(text, n) == Len(text) = n /\ \A i \in DOMAIN text : text[i] \in Range(Digits)

\* the default name after its base: "_<stamp><offset>.json"
FilenameTail == SubSeq(default_name, Len(FilenameBase) + 1, Len(default_name))

\* C27: for every held search term the default export filename is a
\* non-empty base followed by "_", 8 digits, "_", 6 digits, a sign, 4 digits
\* and ".json".
C27_DefaultNameShape ==
    choice = "3" =>
        /\ FilenameBase # <<>>
        /\ Len(FilenameTail) = 26
        /\ FilenameTail[1] = "_"
        /\ IsDigits(SubSeq(FilenameTail, 2, 9), 8)
        /\ FilenameTail[10] = "_"
        /\ IsDigits(SubSeq(FilenameTail, 11, 16), 6)
        /\ FilenameTail[17] \in {"+", "-"}
        /\ IsDigits(SubSeq(FilenameTail, 18, 21), 4)
        /\ SubSeq(FilenameTail, 22, 26) = DotJson

=============================================================================
